---- MODULE Spec2Model ----
(***************************************************************************)
(* A model of the CRL-audit status aggregation of src/src/main.py:         *)
(* load_cached_data folds the cached snapshot documents into per-issuer    *)
(* timelines, create_heatmap_html ranks the issuers (sort_key) and renders *)
(* one cell per issuer and slot; is_valid and get_status_color classify a  *)
(* single entry.  check_for_updates and update_files keep the cache of     *)
(* snapshot documents over the sliding window of slots.                    *)
(* src/src/ct_status.py polls the CT logs (process_log, main), and         *)
(* get_ct_log_data and create_ct_log_table of main.py read and order its   *)
(* records.                                                                *)
(*                                                                         *)
(* Specifications: Spec and SpecRank (the timelines of one and of two      *)
(* issuers), SpecClassify (one entry), SpecCT (the CT log analysis),       *)
(* SpecRun (runs of main() on one day) and SpecCache (runs over several    *)
(* days).                                                                  *)
(*                                                                         *)
(* Python values are tagged records (PyInt, PyStr, PyNone); strings are    *)
(* TLA+ strings, read character by character with SubSeq.  Slot identities *)
(* (the date-suffix strings "YYYYMMDD-n") are the integers 1..NumSlots in  *)
(* their sorted order.                                                     *)
(***************************************************************************)
EXTENDS Integers, Sequences, FiniteSets, TLC

(***************************************************************************)
(* Bounds of the model.                                                    *)
(***************************************************************************)
\* len(get_file_urls()): DAYS_TO_FETCH * FILES_PER_DAY slots in the program.
NumSlots == 3

(***************************************************************************)
(* Program constants.                                                      *)
(***************************************************************************)
\* main.py:187  if hours > 336
STALE_HOURS == 336
\* main.py:227 and main.py:289  abs(...) > 250
REV_THRESHOLD == 250

COLOR_VALID == "#90EE90"
COLOR_YELLOW == "#FFEB3B"
COLOR_RED == "#FFB6C1"
COLOR_MISSING == "#f0f0f0"
ARROW_UP == "&#9650;"
ARROW_DOWN == "&#9660;"
\* The exception get_status_color lets escape: age.split on a non-string.
AttributeError == "AttributeError"

(***************************************************************************)
(* Python values.                                                          *)
(***************************************************************************)
PyInt(n) == [t |-> "int", n |-> n, s |-> ""]
PyStr(s) == [t |-> "str", n |-> 0, s |-> s]
\* None; a JSON null parses to None.
PyNone == [t |-> "none", n |-> 0, s |-> ""]
\* A key the JSON object does not hold.
Missing == [t |-> "missing", n |-> 0, s |-> ""]

\* dict.get(key, default)
Get(v, default) == IF v.t = "missing" THEN default ELSE v

\* isinstance(v, int)
IsInt(v) == v.t = "int"

Abs(n) == IF n < 0 THEN -n ELSE n

(***************************************************************************)
(* Strings.                                                                *)
(***************************************************************************)
Char(s, i) == SubSeq(s, i, i)

\* sub in s
Contains(s, sub) ==
    \E i \in 1..(Len(s) - Len(sub) + 1) : SubSeq(s, i, i + Len(sub) - 1) = sub

UpperChars == "ABCDEFGHIJKLMNOPQRSTUVWXYZ"
LowerChars == "abcdefghijklmnopqrstuvwxyz"

\* The lower-case letter of each upper-case letter.
LowerOf ==
    [c \in {Char(UpperChars, i) : i \in 1..Len(UpperChars)} |->
        Char(LowerChars, CHOOSE i \in 1..Len(UpperChars) : Char(UpperChars, i) = c)]

LowerChar(c) == IF c \in DOMAIN LowerOf THEN LowerOf[c] ELSE c

RECURSIVE LowerFrom(_, _)
LowerFrom(s, i) ==
    IF i > Len(s) THEN "" ELSE LowerChar(Char(s, i)) \o LowerFrom(s, i + 1)

\* str.lower()
Lower(s) == LowerFrom(s, 1)

\* The characters of the model's strings in code point order.
CharOrder ==
    " #&+-./0123456789:;ABCDEFGHIJKLMNOPQRSTUVWXYZ_abcdefghijklmnopqrstuvwxyz"

OrdOf ==
    [c \in {Char(CharOrder, i) : i \in 1..Len(CharOrder)} |->
        CHOOSE i \in 1..Len(CharOrder) : Char(CharOrder, i) = c]

Ord(c) == OrdOf[c]

RECURSIVE StrLessFrom(_, _, _)
StrLessFrom(a, b, i) ==
    IF i > Len(b) THEN FALSE
    ELSE IF i > Len(a) THEN TRUE
    ELSE IF Char(a, i) = Char(b, i) THEN StrLessFrom(a, b, i + 1)
    ELSE Ord(Char(a, i)) < Ord(Char(b, i))

\* a < b on str: lexicographic by code point
StrLess(a, b) == StrLessFrom(a, b, 1)

\* s.split('h')[0]
SplitHead(s) ==
    IF Contains(s, "h")
    THEN LET i == CHOOSE k \in 1..Len(s) :
                     /\ Char(s, k) = "h"
                     /\ \A j \in 1..(k - 1) : Char(s, j) # "h"
         IN  SubSeq(s, 1, i - 1)
    ELSE s

Digits == "0123456789"
DigitOf ==
    [c \in {Char(Digits, i) : i \in 1..Len(Digits)} |->
        (CHOOSE i \in 1..Len(Digits) : Char(Digits, i) = c) - 1]
IsDigit(c) == c \in DOMAIN DigitOf
DigitVal(c) == DigitOf[c]

RECURSIVE StripLeft(_)
StripLeft(s) ==
    IF Len(s) > 0 /\ Char(s, 1) = " " THEN StripLeft(SubSeq(s, 2, Len(s))) ELSE s

RECURSIVE StripRight(_)
StripRight(s) ==
    IF Len(s) > 0 /\ Char(s, Len(s)) = " "
    THEN StripRight(SubSeq(s, 1, Len(s) - 1)) ELSE s

RECURSIVE DigitsValue(_, _, _)
DigitsValue(s, i, acc) ==
    IF i > Len(s) THEN acc
    ELSE IF Char(s, i) = "_" THEN DigitsValue(s, i + 1, acc)
    ELSE DigitsValue(s, i + 1, 10 * acc + DigitVal(Char(s, i)))

\* int(s) on a str: [ok |-> FALSE] is ValueError.  Blanks around the number,
\* a sign and single underscores between digits are accepted, as Python does.
PyIntOfStr(s) ==
    LET t == StripRight(StripLeft(s))
        signed == Len(t) > 0 /\ Char(t, 1) \in {"+", "-"}
        body == IF signed THEN SubSeq(t, 2, Len(t)) ELSE t
        wellformed ==
            /\ Len(body) > 0
            /\ \A i \in 1..Len(body) : IsDigit(Char(body, i)) \/ Char(body, i) = "_"
            /\ IsDigit(Char(body, 1))
            /\ IsDigit(Char(body, Len(body)))
            /\ \A i \in 1..(Len(body) - 1) :
                   ~(Char(body, i) = "_" /\ Char(body, i + 1) = "_")
        magnitude == DigitsValue(body, 1, 0)
    IN  IF wellformed
        THEN [ok |-> TRUE,
              v |-> IF signed /\ Char(t, 1) = "-" THEN -magnitude ELSE magnitude]
        ELSE [ok |-> FALSE, v |-> 0]

(***************************************************************************)
(* Cell classification: is_valid and get_status_color.                     *)
(***************************************************************************)
\* is_valid with the Warning test ahead of the Valid/Empty test.
is_valid_WarningFirst(kind) ==
    IF Contains(kind, "Warning") THEN "warning"
    ELSE IF Contains(kind, "Valid") \/ Contains(kind, "Empty") THEN "valid"
    ELSE "error"

\* is_valid(kind)[1]
is_valid(kind) ==
    IF Contains(kind, "Valid") \/ Contains(kind, "Empty") THEN "valid"
    ELSE IF Contains(kind, "Warning") THEN "warning"
    ELSE "error"

\* The staleness test with >= for >.
IsStaleHours_AtLeast(hours) == hours >= STALE_HOURS

\* hours > 336 in get_status_color
IsStaleHours(hours) == hours > STALE_HOURS

\* get_status_color(kind, age): a colour, or AttributeError when age is not a
\* str (age.split is outside what "except (ValueError, IndexError)" catches).
get_status_color(kind, age) ==
    LET status == is_valid(kind) IN
    IF status = "valid"
    THEN IF age.t # "str" THEN AttributeError
         ELSE LET hours == PyIntOfStr(SplitHead(age.s)) IN
              IF hours.ok /\ IsStaleHours(hours.v) THEN COLOR_YELLOW ELSE COLOR_VALID
    ELSE IF status = "warning" THEN COLOR_YELLOW
    ELSE COLOR_RED

(***************************************************************************)
(* The audit entries the snapshot source supplies.                         *)
(***************************************************************************)
Entry(url, kind, count, age) ==
    [Url |-> url, Kind |-> kind, NumRevocations |-> count, Age |-> age]

\* Integers either side of the 250 threshold.
IntCounts == {PyInt(100), PyInt(350), PyInt(351)}
\* Counts that are no integer: a string, a JSON null, and a key missing from
\* the entry (load_cached_data then records the string '0').
OtherCounts == {PyStr("N/A"), PyNone, Missing}
FreshAge == PyStr("336h0m0s")
Ages == {FreshAge, PyStr("337h0m0s"), PyNone}

EntriesOf(url) ==
    {Entry(PyStr(url), PyStr("Valid"), c, a) : c \in IntCounts, a \in Ages}
    \cup {Entry(PyStr(url), PyStr("Valid"), c, FreshAge) : c \in OtherCounts}
    \cup {Entry(PyStr(url), PyStr("Warning: slow"), c, FreshAge) :
              c \in {PyInt(100), PyInt(351)}}
    \cup {Entry(PyStr(url), PyStr("Error: timeout"), PyInt(100), FreshAge)}
    \cup {Entry(PyStr(url), PyStr(k), PyInt(100), FreshAge) :
              k \in {"Not Fresh", "Valid, Not Fresh"}}

\* One issuer, every count and age.
Entries == EntriesOf("ca.example/crl")

RankEntriesOf(url) ==
    {Entry(PyStr(url), PyStr("Valid"), c, a) :
         c \in {PyInt(100), PyInt(351)}, a \in {FreshAge}}
    \cup {Entry(PyStr(url), PyStr("Valid"), PyInt(100), PyStr("337h0m0s")),
          Entry(PyStr(url), PyStr("Warning: slow"), PyInt(100), FreshAge),
          Entry(PyStr(url), PyStr("Error: timeout"), PyInt(100), FreshAge)}

\* Two issuers whose URLs order differently with and without lower().
RankEntries == RankEntriesOf("a.example/crl") \cup RankEntriesOf("B.example/crl")

(***************************************************************************)
(* State.                                                                  *)
(***************************************************************************)
VARIABLES
    pc,              \* where main() is
    file_dates,      \* load_cached_data: the slots seen so far, in order
    cur,             \* the slot whose cached document is being read, or 0
    entry_kind,      \* the Kind of the entry the loop read last, "" when none
    issuer_statuses, \* key -> [url, statuses: slot -> status]
    issuer_keys,     \* the keys of issuer_statuses in insertion order
    priority,        \* create_heatmap_html: sort_key's priority per issuer
    sorted_issuers,  \* create_heatmap_html: the row order
    cells,           \* create_heatmap_html: issuer -> slot -> rendered cell
    probe,           \* one (kind, age) pair and its classification
    logs,            \* ct_status.py: the log list, once downloaded and sorted
    polls,           \* ct_status.py: what get_sth returned for each log so far
    results,         \* ct_status.py: the records appended so far
    ct_logs,         \* main.py: what get_ct_log_data returned
    sorted_logs,     \* create_ct_log_table: the order of the rows
    today,           \* the day datetime.now() falls on
    cache,           \* the cache directory: slot -> the document of its file
    needs_update,    \* main(): what check_for_updates returned
    expected_files,  \* the slots of get_file_urls() as the run computed them last
    unlink_failed,   \* update_files: the files whose unlink raised
    updated          \* main(): update_files was called in this run

\* The state of the CT log analysis.
ctVars == <<logs, polls, results, ct_logs, sorted_logs>>

\* The clock, the cache directory and what main() keeps of its update step.
cacheVars == <<today, cache, needs_update, expected_files, unlink_failed, updated>>

vars == <<pc, file_dates, cur, entry_kind, issuer_statuses, issuer_keys,
          priority, sorted_issuers, cells, probe, ctVars, cacheVars>>

\* No CT log analysis has run.
CtIdle ==
    /\ logs = <<>>
    /\ polls = <<>>
    /\ results = <<>>
    /\ ct_logs = <<>>
    /\ sorted_logs = <<>>

NoProbe == [kind |-> "", age |-> PyNone, status |-> "", color |-> ""]
Empty == [k \in {} |-> 0]

\* The specifications of the timelines alone have no clock and no cache.
CacheIdle ==
    /\ today = 0
    /\ cache = Empty
    /\ needs_update = {}
    /\ expected_files = {}
    /\ unlink_failed = {}
    /\ updated = FALSE

\* main() before load_cached_data has read anything.
Init ==
    /\ pc = "load"
    /\ file_dates = <<>>
    /\ cur = 0
    /\ entry_kind = ""
    /\ issuer_statuses = Empty
    /\ issuer_keys = <<>>
    /\ priority = Empty
    /\ sorted_issuers = <<>>
    /\ cells = Empty
    /\ probe = NoProbe
    /\ CtIdle
    /\ CacheIdle

(***************************************************************************)
(* load_cached_data.                                                       *)
(***************************************************************************)
\* The next slot of sorted(get_file_urls()) has no cache file.
SlotAbsent ==
    /\ pc = "load" /\ cur = 0 /\ Len(file_dates) < NumSlots
    /\ file_dates' = Append(file_dates, Len(file_dates) + 1)
    /\ UNCHANGED <<pc, cur, entry_kind, issuer_statuses, issuer_keys, priority,
                   sorted_issuers, cells, probe>>
    /\ UNCHANGED <<ctVars, cacheVars>>

\* The next slot has a cache file: it is opened and parsed.
SlotOpen ==
    /\ pc = "load" /\ cur = 0 /\ Len(file_dates) < NumSlots
    /\ file_dates' = Append(file_dates, Len(file_dates) + 1)
    /\ cur' = Len(file_dates) + 1
    /\ entry_kind' = ""
    /\ UNCHANGED <<pc, issuer_statuses, issuer_keys, priority, sorted_issuers,
                   cells, probe>>
    /\ UNCHANGED <<ctVars, cacheVars>>

\* The Not Fresh test as an equality, not a substring test.
IsNotFresh_Exact(entry) == Get(entry.Kind, PyStr("N/A")).s = "Not Fresh"

\* 'Not Fresh' in entry.get('Kind', 'N/A')
IsNotFresh(entry) == Contains(Get(entry.Kind, PyStr("N/A")).s, "Not Fresh")

\* The status recorded for an entry.
StatusOf(entry) ==
    [kind |-> Get(entry.Kind, PyStr("N/A")).s,
     num_revocations |-> Get(entry.NumRevocations, PyStr("0")),
     age |-> Get(entry.Age, PyStr("N/A"))]

\* issuer_statuses after one entry of slot date_suffix.
StoreEntry(statuses, entry, date_suffix) ==
    LET key == Get(entry.Url, PyStr("N/A")).s
        old == IF key \in DOMAIN statuses
               THEN statuses[key]
               ELSE [url |-> Get(entry.Url, PyStr("")).s, statuses |-> Empty]
        new == [old EXCEPT !.statuses =
                   [d \in DOMAIN old.statuses \cup {date_suffix} |->
                       IF d = date_suffix THEN StatusOf(entry) ELSE old.statuses[d]]]
    IN  [k \in DOMAIN statuses \cup {key} |-> IF k = key THEN new ELSE statuses[k]]

\* One iteration of "for entry in data.get('Entries', [])".
LoadEntry(entry) ==
    /\ pc = "load" /\ cur # 0
    /\ entry_kind' = Get(entry.Kind, PyStr("N/A")).s
    /\ IF IsNotFresh(entry)
       THEN UNCHANGED <<issuer_statuses, issuer_keys>>
       ELSE LET key == Get(entry.Url, PyStr("N/A")).s IN
            /\ issuer_statuses' = StoreEntry(issuer_statuses, entry, cur)
            /\ issuer_keys' = IF key \in DOMAIN issuer_statuses
                              THEN issuer_keys ELSE Append(issuer_keys, key)
    /\ UNCHANGED <<pc, file_dates, cur, priority, sorted_issuers, cells, probe>>
    /\ UNCHANGED <<ctVars, cacheVars>>

\* The document ends, or reading it raises (json.load fails, or an entry's
\* Kind is null and the "in" test raises TypeError): "except Exception" prints
\* and the loop goes on to the next slot.
SlotDone ==
    /\ pc = "load" /\ cur # 0
    /\ cur' = 0
    /\ entry_kind' = ""
    /\ UNCHANGED <<pc, file_dates, issuer_statuses, issuer_keys, priority,
                   sorted_issuers, cells, probe>>
    /\ UNCHANGED <<ctVars, cacheVars>>

\* load_cached_data returns; main() exits when there is no issuer.
LoadReturn ==
    /\ pc = "load" /\ cur = 0 /\ Len(file_dates) = NumSlots
    /\ pc' = IF DOMAIN issuer_statuses = {} THEN "exit1" ELSE "loaded"
    /\ UNCHANGED <<file_dates, cur, entry_kind, issuer_statuses, issuer_keys,
                   priority, sorted_issuers, cells, probe>>
    /\ UNCHANGED <<ctVars, cacheVars>>

(***************************************************************************)
(* create_heatmap_html: sort_key.                                          *)
(***************************************************************************)
\* "for status in data['statuses'].values()" from slot d on, prev_revocations
\* being prev: whether has_arrow is set.  The dict iterates in insertion
\* order, which is ascending slot order (load_cached_data visits the slots
\* sorted, and overwriting a key keeps its place); a slot without a status is
\* no element of the dict, so the loop does not see it and prev stays.
RECURSIVE ArrowFrom(_, _, _, _)
ArrowFrom(statuses, dates, d, prev) ==
    IF d > Len(dates) THEN FALSE
    ELSE IF dates[d] \notin DOMAIN statuses THEN ArrowFrom(statuses, dates, d + 1, prev)
    ELSE LET curr == statuses[dates[d]].num_revocations IN
         \/ /\ prev # PyNone /\ IsInt(curr) /\ IsInt(prev)
            /\ Abs(curr.n - prev.n) > REV_THRESHOLD
         \/ ArrowFrom(statuses, dates, d + 1, curr)

\* The colours sort_key's loop sees.
Colors(statuses) ==
    {get_status_color(statuses[d].kind, statuses[d].age) : d \in DOMAIN statuses}

\* The priority sort_key reaches from what its loop found.
PriorityOf(missing, has_error, has_warning, has_arrow) ==
    IF has_error THEN 4
    ELSE IF has_warning THEN 3
    ELSE IF has_arrow THEN 1
    ELSE IF missing THEN 2
    ELSE 0

\* sort_key(issuer): [raises, priority, url]; raises when get_status_color does.
sort_key(data, dates) ==
    LET seen == Colors(data.statuses)
    IN  [raises |-> AttributeError \in seen,
         priority |-> PriorityOf(Cardinality(DOMAIN data.statuses) < Len(dates),
                                 COLOR_RED \in seen, COLOR_YELLOW \in seen,
                                 ArrowFrom(data.statuses, dates, 1, PyNone)),
         url |-> Lower(data.url)]

\* (-priority, url) < (-priority, url) on two sort keys
KeyLess(a, b) ==
    \/ a.priority > b.priority
    \/ a.priority = b.priority /\ StrLess(a.url, b.url)

\* One step of a stable insertion: k goes behind every element not greater.
RECURSIVE InsertSorted(_, _, _)
InsertSorted(sorted, k, key) ==
    IF sorted = <<>> THEN <<k>>
    ELSE IF KeyLess(key[k], key[Head(sorted)]) THEN <<k>> \o sorted
    ELSE <<Head(sorted)>> \o InsertSorted(Tail(sorted), k, key)

RECURSIVE SortFrom(_, _, _)
SortFrom(keys, i, key) ==
    IF i = 0 THEN <<>>
    ELSE InsertSorted(SortFrom(keys, i - 1, key), keys[i], key)

\* sorted(issuer_statuses.keys(), key=sort_key): stable, ascending
Sorted(keys, key) == SortFrom(keys, Len(keys), key)

(***************************************************************************)
(* create_heatmap_html: the cells of one row.                              *)
(***************************************************************************)
MissingCell ==
    [present |-> FALSE, bg_color |-> COLOR_MISSING, prev |-> PyNone,
     rev_change |-> 0, display_text |-> ""]

\* The threshold test with >= for >.
IsSignificant_AtLeast(rev_change) == Abs(rev_change) >= REV_THRESHOLD

\* abs(rev_change) > 250
IsSignificant(rev_change) == Abs(rev_change) > REV_THRESHOLD

\* The cell of a present slot, prev_revocations being prev.
PresentCell(status, prev) ==
    LET curr == status.num_revocations
        compared == prev # PyNone /\ IsInt(curr) /\ IsInt(prev)
        rev_change == IF compared THEN curr.n - prev.n ELSE 0
    IN  [present |-> TRUE,
         bg_color |-> get_status_color(status.kind, status.age),
         prev |-> prev,
         rev_change |-> rev_change,
         display_text |->
             IF compared /\ IsSignificant(rev_change)
             THEN IF rev_change > 0 THEN ARROW_UP
                  ELSE IF rev_change < 0 THEN ARROW_DOWN ELSE ""
             ELSE ""]

\* A row loop that keeps the baseline across a slot with no status.
PrevAfterMissing_Kept(prev) == prev

\* prev_revocations after a slot with no status.
PrevAfterMissing(prev) == PyNone

\* A row loop that keeps the last integer count across a count that is none.
PrevAfterPresent_SkipNonInt(curr, prev) == IF IsInt(curr) THEN curr ELSE prev

\* prev_revocations after a present slot of count curr: the count, of any type.
PrevAfterPresent(curr, prev) == curr

\* "for col_idx, date_suffix in enumerate(file_dates)" from column col on.
RECURSIVE RowFrom(_, _, _, _)
RowFrom(statuses, dates, col, prev) ==
    IF col > Len(dates) THEN <<>>
    ELSE IF dates[col] \in DOMAIN statuses
    THEN <<PresentCell(statuses[dates[col]], prev)>>
         \o RowFrom(statuses, dates, col + 1,
                    PrevAfterPresent(statuses[dates[col]].num_revocations, prev))
    ELSE <<MissingCell>> \o RowFrom(statuses, dates, col + 1, PrevAfterMissing(prev))

\* create_heatmap_html(issuer_statuses, file_dates), called from main().
CreateHeatmap ==
    /\ pc \in {"loaded", "ct_table"}
    /\ \E key \in {[k \in DOMAIN issuer_statuses |->
                       sort_key(issuer_statuses[k], file_dates)]} :
           IF \E k \in DOMAIN key : key[k].raises
           THEN /\ pc' = "raised"
                /\ UNCHANGED <<priority, sorted_issuers, cells>>
           ELSE /\ pc' = "rendered"
                /\ priority' = [k \in DOMAIN key |-> key[k].priority]
                /\ sorted_issuers' = Sorted(issuer_keys, key)
                /\ cells' = [k \in DOMAIN issuer_statuses |->
                                RowFrom(issuer_statuses[k].statuses, file_dates, 1, PyNone)]
    /\ UNCHANGED <<file_dates, cur, entry_kind, issuer_statuses, issuer_keys, probe>>
    /\ UNCHANGED <<ctVars, cacheVars>>

(***************************************************************************)
(* The timeline specifications.                                            *)
(***************************************************************************)
Next ==
    \/ SlotAbsent
    \/ SlotOpen
    \/ \E entry \in Entries : LoadEntry(entry)
    \/ SlotDone
    \/ LoadReturn
    \/ CreateHeatmap

\* One issuer, every count and age of the model.
Spec == Init /\ [][Next]_vars

NextRank ==
    \/ SlotAbsent
    \/ SlotOpen
    \/ \E entry \in RankEntries : LoadEntry(entry)
    \/ SlotDone
    \/ LoadReturn
    \/ CreateHeatmap

\* Two issuers, for the order of the rows.
SpecRank == Init /\ [][NextRank]_vars

(***************************************************************************)
(* The classification of one entry, as a specification of its own.         *)
(***************************************************************************)
Kinds ==
    {"Valid", "valid", "VALID", "Empty", "EMPTY", "Warning: slow", "warning",
     "Valid Warning", "Warning: Empty", "Error: timeout", "Invalid",
     "Not Fresh", "N/A", ""}

AgeValues ==
    {PyStr("336h0m0s"), PyStr("337h0m0s"), PyStr("1659h12m26.81016978s"),
     PyStr("0h5m0s"), PyStr("N/A"), PyStr(""), PyStr("45m10s"), PyStr("h"),
     PyStr("337.5h"), PyStr("-400h"), PyStr(" 400 h"), PyStr("1_000h0m0s"), PyNone}

InitClassify ==
    /\ pc = "probe"
    /\ file_dates = <<>>
    /\ cur = 0
    /\ entry_kind = ""
    /\ issuer_statuses = Empty
    /\ issuer_keys = <<>>
    /\ priority = Empty
    /\ sorted_issuers = <<>>
    /\ cells = Empty
    /\ \E k \in Kinds, a \in AgeValues :
           probe = [kind |-> k, age |-> a, status |-> "", color |-> ""]
    /\ CtIdle
    /\ CacheIdle

\* is_valid(kind) and get_status_color(kind, age) on the probe.
Classify ==
    /\ pc = "probe"
    /\ pc' = "classified"
    /\ probe' = [probe EXCEPT !.status = is_valid(probe.kind),
                              !.color = get_status_color(probe.kind, probe.age)]
    /\ UNCHANGED <<file_dates, cur, entry_kind, issuer_statuses, issuer_keys,
                   priority, sorted_issuers, cells>>
    /\ UNCHANGED <<ctVars, cacheVars>>

NextClassify == Classify

SpecClassify == InitClassify /\ [][NextClassify]_vars

(***************************************************************************)
(* ct_status.py: the CT logs of ct-logs.json and the answers of their      *)
(* get-sth endpoints.  Timestamps are milliseconds.                        *)
(***************************************************************************)
\* The most logs ct-logs.json lists.
MaxLogs == 3
\* ct_status.py:97  (1000 * 60 * 60)
MS_PER_HOUR == 3600000

NA == "N/A"
FAILED_STH == "Failed to get STH"

LogUrls == {"a.example/log", "b.example/log", "c.example/log", "D.example/log"}
\* A log's MaxTimestamp: 100 hours.
LogTimestamp == 360000000

LogEntry(url, id, max_timestamp) ==
    [ShortURL |-> url, LogID |-> id, MaxEntry |-> 90, MaxTimestamp |-> max_timestamp]

\* A log is active, inactive (empty LogID), or active with no entry yet.
LogEntriesOf(url) ==
    {LogEntry(url, "id", LogTimestamp), LogEntry(url, "", LogTimestamp),
     LogEntry(url, "id", 0)}

RECURSIVE SeqsOver(_, _)
\* The sequences of n entries of distinct URLs among urls.
SeqsOver(urls, n) ==
    IF n = 0 THEN {<<>>}
    ELSE UNION {{<<e>> \o rest : e \in LogEntriesOf(u), rest \in SeqsOver(urls \ {u}, n - 1)} :
                   u \in urls}

\* What download_ct_logs may return.
LogInputs == UNION {SeqsOver(LogUrls, n) : n \in 1..MaxLogs}

\* What get_sth returned: ok is FALSE for None (the request or its decoding
\* raised), a key the answer lacks is Missing.
Sth(ok, tree_size, timestamp) ==
    [polled |-> TRUE, ok |-> ok, tree_size |-> tree_size, timestamp |-> timestamp]
\* The log was skipped before get_sth.
NotPolled ==
    [polled |-> FALSE, ok |-> FALSE, tree_size |-> Missing, timestamp |-> Missing]

SthAnswers ==
    {Sth(FALSE, Missing, Missing),
     Sth(TRUE, Missing, PyInt(LogTimestamp + 45000000)),
     Sth(TRUE, PyInt(100), PyInt(LogTimestamp + 45000000)),
     Sth(TRUE, PyInt(100), PyInt(LogTimestamp - 108000000)),
     Sth(TRUE, PyStr("100"), PyInt(LogTimestamp + 45000000)),
     Sth(TRUE, PyInt(100), PyNone)}

(***************************************************************************)
(* ct_status.py: process_log and main.                                     *)
(***************************************************************************)
RECURSIVE NatToStr(_)
\* str(n) for n >= 0
NatToStr(n) ==
    IF n < 10 THEN Char(Digits, n + 1)
    ELSE NatToStr(n \div 10) \o Char(Digits, (n % 10) + 1)

\* f"{ms / (1000 * 60 * 60):+.2f}h": the hours rounded to the nearest
\* hundredth, with a sign.  (No input of the model lies halfway.)
FormatHours(ms) ==
    LET c == (2 * Abs(ms) + (MS_PER_HOUR \div 100)) \div (2 * (MS_PER_HOUR \div 100))
    IN  (IF ms < 0 THEN "-" ELSE "+")
        \o NatToStr(c \div 100) \o "." \o NatToStr((c % 100) \div 10)
        \o NatToStr(c % 10) \o "h"

\* x > 0 raises TypeError when x is a str or None.
IsNumber(v) == v.t = "int"

\* not sth or 'tree_size' not in sth or 'timestamp' not in sth
SthUnusable(sth) ==
    ~sth.ok \/ sth.tree_size = Missing \/ sth.timestamp = Missing

CtRecord(outcome, log_entry, tree_size, time_diff, error) ==
    [outcome |-> outcome, short_url |-> log_entry.ShortURL,
     max_entry |-> log_entry.MaxEntry, tree_size |-> tree_size,
     time_diff |-> time_diff, error |-> error]

\* process_log(log_entry), get_sth having returned sth.  outcome is "none"
\* (return None), "raise" (a comparison raised TypeError) or "record".
process_log(log_entry, sth) ==
    IF log_entry.LogID = ""
    THEN CtRecord("none", log_entry, PyNone, "", PyNone)
    ELSE IF SthUnusable(sth)
    THEN CtRecord("record", log_entry, PyStr(NA), NA, PyStr(FAILED_STH))
    ELSE IF log_entry.MaxTimestamp > 0 /\ ~IsNumber(sth.timestamp)
    THEN CtRecord("raise", log_entry, PyNone, "", PyNone)
    ELSE IF ~IsNumber(sth.tree_size)
    THEN CtRecord("raise", log_entry, PyNone, "", PyNone)
    ELSE CtRecord("record", log_entry, sth.tree_size,
                  IF log_entry.MaxTimestamp > 0 /\ sth.timestamp.n > 0
                  THEN FormatHours(sth.timestamp.n - log_entry.MaxTimestamp)
                  ELSE NA,
                  PyNone)

\* The record main() appends for a result of process_log.
CtResult(result) ==
    [url |-> result.short_url,
     entry_lag |-> IF result.tree_size # PyStr(NA)
                   THEN PyInt(result.tree_size.n - result.max_entry)
                   ELSE PyStr(NA),
     time_diff |-> result.time_diff,
     tree_size |-> result.tree_size,
     error |-> result.error]

RECURSIVE InsertLog(_, _)
InsertLog(sorted, log) ==
    IF sorted = <<>> THEN <<log>>
    ELSE IF StrLess(log.ShortURL, Head(sorted).ShortURL) THEN <<log>> \o sorted
    ELSE <<Head(sorted)>> \o InsertLog(Tail(sorted), log)

RECURSIVE SortLogs(_)
\* logs.sort(key=lambda x: x["ShortURL"])
SortLogs(input) ==
    IF input = <<>> THEN <<>>
    ELSE InsertLog(SortLogs(SubSeq(input, 1, Len(input) - 1)), input[Len(input)])

\* main() up to the loop: the list is found, downloaded and sorted, or one of
\* these raises and main() exits 1.
CtDownload ==
    /\ pc = "ct_start"
    /\ \/ /\ pc' = "ct_exit1"
          /\ UNCHANGED logs
       \/ /\ \E input \in LogInputs : logs' = SortLogs(input)
          /\ pc' = "ct_loop"
    /\ UNCHANGED <<polls, results, ct_logs, sorted_logs>>
    /\ UNCHANGED <<file_dates, cur, entry_kind, issuer_statuses, issuer_keys,
                   priority, sorted_issuers, cells, probe, cacheVars>>

\* One iteration of "for log in logs": an exception of process_log leaves
\* the loop for main()'s "except Exception", which exits 1.
ProcessLog ==
    /\ pc = "ct_loop" /\ Len(polls) < Len(logs)
    /\ LET log == logs[Len(polls) + 1] IN
       \E sth \in IF log.LogID = "" THEN {NotPolled} ELSE SthAnswers :
       \E result \in {process_log(log, sth)} :
           /\ polls' = Append(polls, sth)
           /\ pc' = IF result.outcome = "raise" THEN "ct_exit1" ELSE pc
           /\ results' = IF result.outcome = "record"
                         THEN Append(results, CtResult(result)) ELSE results
    /\ UNCHANGED <<logs, ct_logs, sorted_logs>>
    /\ UNCHANGED <<file_dates, cur, entry_kind, issuer_statuses, issuer_keys,
                   priority, sorted_issuers, cells, probe, cacheVars>>

\* print(json.dumps(results, indent=2))
CtPrint ==
    /\ pc = "ct_loop" /\ Len(polls) = Len(logs)
    /\ pc' = "ct_printed"
    /\ UNCHANGED ctVars
    /\ UNCHANGED <<file_dates, cur, entry_kind, issuer_statuses, issuer_keys,
                   priority, sorted_issuers, cells, probe, cacheVars>>

(***************************************************************************)
(* main.py: get_ct_log_data and create_ct_log_table.                       *)
(***************************************************************************)
\* get_ct_log_data(): the printed list, or [] when ct_status.py exited 1.
GetCtLogData ==
    /\ pc \in {"ct_printed", "ct_exit1"}
    /\ ct_logs' = IF pc = "ct_printed" THEN results ELSE <<>>
    /\ pc' = "ct_logs"
    /\ UNCHANGED <<logs, polls, results, sorted_logs>>
    /\ UNCHANGED <<file_dates, cur, entry_kind, issuer_statuses, issuer_keys,
                   priority, sorted_issuers, cells, probe, cacheVars>>

\* float('inf')
Inf == [inf |-> TRUE, v |-> 0]
\* A float of at most two decimals, as its hundredths.
Hundredths(v) == [inf |-> FALSE, v |-> v]

RECURSIVE RemoveChar(_, _)
\* s.replace(c, '')
RemoveChar(s, c) ==
    IF s = "" THEN ""
    ELSE IF Char(s, 1) = c THEN RemoveChar(SubSeq(s, 2, Len(s)), c)
    ELSE Char(s, 1) \o RemoveChar(SubSeq(s, 2, Len(s)), c)

\* float(s) on a str of the form [sign] digits [. digits], at most two
\* decimals read: [ok |-> FALSE] is ValueError.
PyFloatOfStr(s) ==
    LET t == StripRight(StripLeft(s))
        signed == Len(t) > 0 /\ Char(t, 1) \in {"+", "-"}
        body == IF signed THEN SubSeq(t, 2, Len(t)) ELSE t
        dot == IF Contains(body, ".")
               THEN CHOOSE i \in 1..Len(body) :
                        /\ Char(body, i) = "."
                        /\ \A j \in 1..(i - 1) : Char(body, j) # "."
               ELSE Len(body) + 1
        whole == SubSeq(body, 1, dot - 1)
        frac == SubSeq(body, dot + 1, Len(body))
        wellformed ==
            /\ Len(whole) + Len(frac) > 0
            /\ \A i \in 1..Len(whole) : IsDigit(Char(whole, i))
            /\ \A i \in 1..Len(frac) : IsDigit(Char(frac, i))
        padded == SubSeq(frac \o "00", 1, 2)
        magnitude == 100 * DigitsValue(whole, 1, 0) + DigitsValue(padded, 1, 0)
    IN  IF wellformed
        THEN [ok |-> TRUE,
              v |-> IF signed /\ Char(t, 1) = "-" THEN -magnitude ELSE magnitude]
        ELSE [ok |-> FALSE, v |-> 0]

\* parse_time_diff without abs().
parse_time_diff_Signed(time_str) ==
    IF time_str = "" \/ time_str = NA THEN Inf
    ELSE LET hours == PyFloatOfStr(RemoveChar(time_str, "h"))
         IN  IF hours.ok THEN Hundredths(hours.v) ELSE Inf

\* parse_time_diff(time_str), time_str a str
parse_time_diff(time_str) ==
    IF time_str = "" \/ time_str = NA THEN Inf
    ELSE LET hours == PyFloatOfStr(RemoveChar(time_str, "h"))
         IN  IF hours.ok THEN Hundredths(Abs(hours.v)) ELSE Inf

\* sort_key(log) of create_ct_log_table
ct_sort_key(log) == [hours |-> parse_time_diff(log.time_diff), url |-> log.url]

\* a < b on two floats
FloatLess(a, b) == ~a.inf /\ (b.inf \/ a.v < b.v)

\* a < b on two (hours, url) tuples
CtKeyLess(a, b) ==
    \/ FloatLess(a.hours, b.hours)
    \/ a.hours = b.hours /\ StrLess(a.url, b.url)

RECURSIVE InsertDescending(_, _)
\* log goes behind every element whose key is not less than its own.
InsertDescending(sorted, log) ==
    IF sorted = <<>> THEN <<log>>
    ELSE IF CtKeyLess(ct_sort_key(Head(sorted)), ct_sort_key(log)) THEN <<log>> \o sorted
    ELSE <<Head(sorted)>> \o InsertDescending(Tail(sorted), log)

RECURSIVE SortedDescending(_)
\* sorted(ct_logs, key=sort_key, reverse=True): stable, descending
SortedDescending(list) ==
    IF list = <<>> THEN <<>>
    ELSE InsertDescending(SortedDescending(SubSeq(list, 1, Len(list) - 1)),
                          list[Len(list)])

\* create_ct_log_table(ct_logs): the rows in their order, none for no logs.
CreateCtLogTable ==
    /\ pc = "ct_logs"
    /\ sorted_logs' = SortedDescending(ct_logs)
    /\ pc' = "ct_table"
    /\ UNCHANGED <<logs, polls, results, ct_logs>>
    /\ UNCHANGED <<file_dates, cur, entry_kind, issuer_statuses, issuer_keys,
                   priority, sorted_issuers, cells, probe, cacheVars>>

(***************************************************************************)
(* The CT log analysis as a specification.                                 *)
(***************************************************************************)
InitCT ==
    /\ pc = "ct_start"
    /\ file_dates = <<>>
    /\ cur = 0
    /\ entry_kind = ""
    /\ issuer_statuses = Empty
    /\ issuer_keys = <<>>
    /\ priority = Empty
    /\ sorted_issuers = <<>>
    /\ cells = Empty
    /\ probe = NoProbe
    /\ CtIdle
    /\ CacheIdle

NextCT ==
    \/ CtDownload
    \/ ProcessLog
    \/ CtPrint
    \/ GetCtLogData
    \/ CreateCtLogTable

SpecCT == InitCT /\ [][NextCT]_vars

(***************************************************************************)
(* The cache window.  A date-suffix "YYYYMMDD-n" is the integer            *)
(* day * FILES_PER_DAY + n, which orders as the strings do.                *)
(***************************************************************************)
\* main.py:14 has 14 days; the model's window is shorter.
DAYS_TO_FETCH == 2
\* main.py:15
FILES_PER_DAY == 2
\* How often the date changes while the model runs.
MaxMidnights == 1

\* The first day of the model: its window starts at day 1.
FirstDay == DAYS_TO_FETCH
LastDay == FirstDay + MaxMidnights

\* get_file_dates() on a day
get_file_dates(day) == {day - i : i \in 0..(DAYS_TO_FETCH - 1)}

\* f"{date}-{suffix}"
DateSuffix(date, suffix) == date * FILES_PER_DAY + suffix

\* The date-suffixes of get_file_urls() on a day.
get_file_urls(day) ==
    {DateSuffix(date, suffix) :
         date \in get_file_dates(day), suffix \in 0..(FILES_PER_DAY - 1)}

RECURSIVE SortedSlots(_)
\* sorted(...) of a set of date-suffixes
SortedSlots(slots) ==
    IF slots = {} THEN <<>>
    ELSE LET last == CHOOSE x \in slots : \A y \in slots : y <= x
         IN  Append(SortedSlots(slots \ {last}), last)

(***************************************************************************)
(* The documents the snapshot source serves for a slot.                    *)
(***************************************************************************)
RunUrl == "ca.example/crl"
GoodEntry == Entry(PyStr(RunUrl), PyStr("Valid"), PyInt(100), FreshAge)
NotFreshEntry == Entry(PyStr(RunUrl), PyStr("Not Fresh"), PyInt(100), FreshAge)
\* "Kind": null
NullKindEntry == Entry(PyStr(RunUrl), PyNone, PyInt(100), FreshAge)
\* "Age": null
NullAgeEntry == Entry(PyStr(RunUrl), PyStr("Valid"), PyInt(100), PyNone)

\* The 'Entries' of a document.
Documents ==
    {<<GoodEntry>>, <<NotFreshEntry>>, <<NullKindEntry, GoodEntry>>, <<NullAgeEntry>>}
PlainDocuments == {<<GoodEntry>>}

\* What fetching one slot came to: ok is FALSE when fetch_json_data raised.
Fetched(ok, data) == [ok |-> ok, data |-> data]
FetchOutcomes(documents) ==
    {Fetched(FALSE, <<>>)} \cup {Fetched(TRUE, d) : d \in documents}

(***************************************************************************)
(* main(): check_for_updates and update_files.                             *)
(***************************************************************************)
\* check_for_updates(), and main()'s "if needs_update".
CheckForUpdates ==
    /\ pc = "check"
    /\ needs_update' = {date_suffix \in get_file_urls(today) :
                            date_suffix \notin DOMAIN cache}
    /\ expected_files' = get_file_urls(today)
    /\ pc' = IF needs_update' # {} THEN "update" ELSE "load_cache"
    /\ UNCHANGED <<today, cache, unlink_failed, updated>>
    /\ UNCHANGED <<file_dates, cur, entry_kind, issuer_statuses, issuer_keys,
                   priority, sorted_issuers, cells, probe, ctVars>>

\* An update step that removes nothing.
Unexpected_None(cache_files, expected) == {}

\* cache_files - expected_files
Unexpected(cache_files, expected) == cache_files \ expected

\* update_files(needs_update): each unexpected file is unlinked unless unlink
\* raises, then each slot of needs_update is fetched and written unless
\* fetch_json_data raises.
UpdateFiles(documents) ==
    /\ pc = "update"
    /\ \E expected \in {get_file_urls(today)} :
       \E failed \in SUBSET Unexpected(DOMAIN cache, expected) :
       \E fetched \in [needs_update -> FetchOutcomes(documents)] :
           LET kept == (DOMAIN cache \ Unexpected(DOMAIN cache, expected)) \cup failed
               written == {d \in needs_update : d \notin kept /\ fetched[d].ok}
           IN  /\ cache' = [d \in kept \cup written |->
                               IF d \in kept THEN cache[d] ELSE fetched[d].data]
               /\ expected_files' = expected
               /\ unlink_failed' = failed
    /\ updated' = TRUE
    /\ pc' = "load_cache"
    /\ UNCHANGED <<today, needs_update>>
    /\ UNCHANGED <<file_dates, cur, entry_kind, issuer_statuses, issuer_keys,
                   priority, sorted_issuers, cells, probe, ctVars>>

(***************************************************************************)
(* main(): load_cached_data over the cache, as one step.                   *)
(***************************************************************************)
\* 'Not Fresh' in entry.get('Kind', 'N/A') raises TypeError on a Kind that
\* is no string.
EntryRaises(entry) == Get(entry.Kind, PyStr("N/A")).t # "str"

RECURSIVE LoadEntriesFrom(_, _, _, _)
\* "for entry in data.get('Entries', [])" from entry i on, inside the try:
\* an entry that raises ends the loop.
LoadEntriesFrom(loaded, document, i, date_suffix) ==
    IF i > Len(document) THEN loaded
    ELSE IF EntryRaises(document[i]) THEN loaded
    ELSE IF IsNotFresh(document[i])
    THEN LoadEntriesFrom(loaded, document, i + 1, date_suffix)
    ELSE LET key == Get(document[i].Url, PyStr("N/A")).s
         IN  LoadEntriesFrom(
                 [statuses |-> StoreEntry(loaded.statuses, document[i], date_suffix),
                  keys |-> IF key \in DOMAIN loaded.statuses
                           THEN loaded.keys ELSE Append(loaded.keys, key)],
                 document, i + 1, date_suffix)

RECURSIVE LoadSlotsFrom(_, _, _, _)
\* "for date_suffix, url in sorted(get_file_urls())" from slot i on.
LoadSlotsFrom(loaded, files, dates, i) ==
    IF i > Len(dates) THEN loaded
    ELSE LoadSlotsFrom(IF dates[i] \in DOMAIN files
                       THEN LoadEntriesFrom(loaded, files[dates[i]], 1, dates[i])
                       ELSE loaded,
                       files, dates, i + 1)

\* load_cached_data(), and main()'s exit when there is no issuer.
LoadCachedData ==
    /\ pc = "load_cache"
    /\ \E dates \in {SortedSlots(get_file_urls(today))} :
       \E loaded \in {LoadSlotsFrom([statuses |-> Empty, keys |-> <<>>], cache, dates, 1)} :
           /\ file_dates' = dates
           /\ issuer_statuses' = loaded.statuses
           /\ issuer_keys' = loaded.keys
           /\ pc' = IF DOMAIN loaded.statuses = {} THEN "exit1" ELSE "ct_run"
    /\ UNCHANGED <<cur, entry_kind, priority, sorted_issuers, cells, probe>>
    /\ UNCHANGED <<ctVars, cacheVars>>

(***************************************************************************)
(* main(): the run of ct_status.py inside get_ct_log_data, as one step.    *)
(***************************************************************************)
RunLogs == <<LogEntry("a.example/log", "id", LogTimestamp)>>
RunAnswers ==
    {Sth(FALSE, Missing, Missing),
     Sth(TRUE, PyInt(100), PyInt(LogTimestamp + 45000000)),
     Sth(TRUE, PyStr("100"), PyInt(LogTimestamp + 45000000))}

RECURSIVE CtLoopFrom(_, _, _, _)
\* "for log in logs" of ct_status.py from log i on, get_sth returning
\* answers[i]: where it ends, the polls made and the records appended.
CtLoopFrom(sorted, answers, i, run) ==
    IF i > Len(sorted) THEN [run EXCEPT !.pc = "ct_printed"]
    ELSE LET result == process_log(sorted[i], answers[i])
             polled == Append(run.polls, answers[i])
         IN  IF result.outcome = "raise"
             THEN [pc |-> "ct_exit1", polls |-> polled, results |-> run.results]
             ELSE CtLoopFrom(sorted, answers, i + 1,
                             [pc |-> run.pc, polls |-> polled,
                              results |-> IF result.outcome = "record"
                                          THEN Append(run.results, CtResult(result))
                                          ELSE run.results])

\* subprocess.run(['python3', 'ct_status.py'], ...)
RunCtStatus ==
    /\ pc = "ct_run"
    /\ \E answers \in [1..Len(RunLogs) -> RunAnswers] :
       \E run \in {CtLoopFrom(SortLogs(RunLogs), answers, 1,
                              [pc |-> "ct_loop", polls |-> <<>>, results |-> <<>>])} :
           /\ logs' = SortLogs(RunLogs)
           /\ polls' = run.polls
           /\ results' = run.results
           /\ pc' = run.pc
    /\ UNCHANGED <<ct_logs, sorted_logs>>
    /\ UNCHANGED <<file_dates, cur, entry_kind, issuer_statuses, issuer_keys,
                   priority, sorted_issuers, cells, probe, cacheVars>>

(***************************************************************************)
(* Runs of main.py, one after the other, on the days of the model.         *)
(***************************************************************************)
\* main.py is started again after a run has ended.
StartRun ==
    /\ pc \in {"exit1", "raised", "rendered"}
    /\ pc' = "check"
    /\ file_dates' = <<>>
    /\ issuer_statuses' = Empty
    /\ issuer_keys' = <<>>
    /\ priority' = Empty
    /\ sorted_issuers' = <<>>
    /\ cells' = Empty
    /\ logs' = <<>> /\ polls' = <<>> /\ results' = <<>>
    /\ ct_logs' = <<>> /\ sorted_logs' = <<>>
    /\ needs_update' = {}
    /\ expected_files' = {}
    /\ unlink_failed' = {}
    /\ updated' = FALSE
    /\ UNCHANGED <<cur, entry_kind, probe, today, cache>>

\* The date changes.
Midnight ==
    /\ today < LastDay
    /\ today' = today + 1
    /\ UNCHANGED <<cache, needs_update, expected_files, unlink_failed, updated>>
    /\ UNCHANGED <<pc, file_dates, cur, entry_kind, issuer_statuses, issuer_keys,
                   priority, sorted_issuers, cells, probe, ctVars>>

InitRun ==
    /\ pc = "check"
    /\ file_dates = <<>>
    /\ cur = 0
    /\ entry_kind = ""
    /\ issuer_statuses = Empty
    /\ issuer_keys = <<>>
    /\ priority = Empty
    /\ sorted_issuers = <<>>
    /\ cells = Empty
    /\ probe = NoProbe
    /\ CtIdle
    /\ today = FirstDay
    /\ cache = Empty
    /\ needs_update = {}
    /\ expected_files = {}
    /\ unlink_failed = {}
    /\ updated = FALSE

NextRun ==
    \/ CheckForUpdates
    \/ UpdateFiles(Documents)
    \/ LoadCachedData
    \/ RunCtStatus
    \/ GetCtLogData
    \/ CreateCtLogTable
    \/ CreateHeatmap
    \/ StartRun

\* Runs on one day, over every document of the model.
SpecRun == InitRun /\ [][NextRun]_vars

NextCache ==
    \/ Midnight
    \/ CheckForUpdates
    \/ UpdateFiles(PlainDocuments)
    \/ LoadCachedData
    \/ RunCtStatus
    \/ GetCtLogData
    \/ CreateCtLogTable
    \/ CreateHeatmap
    \/ StartRun

\* Runs over several days, every document the same.
SpecCache == InitRun /\ [][NextCache]_vars

(***************************************************************************)
(* What the claims speak of.                                               *)
(***************************************************************************)
Rendered == pc = "rendered"
Issuers == DOMAIN issuer_statuses
StatusAt(k, d) == issuer_statuses[k].statuses[d]
PresentSlots(k) == DOMAIN issuer_statuses[k].statuses
\* The health category of a present cell.
Category(k, d) == is_valid(StatusAt(k, d).kind)
HasErrorCell(k) == \E d \in PresentSlots(k) : Category(k, d) = "error"
HasWarningCell(k) == \E d \in PresentSlots(k) : Category(k, d) = "warning"
AllCellsValid(k) == \A d \in PresentSlots(k) : Category(k, d) = "valid"
\* A valid cell shown in the stale-valid state.
IsStaleCell(k, d) ==
    /\ Category(k, d) = "valid"
    /\ get_status_color(StatusAt(k, d).kind, StatusAt(k, d).age) = COLOR_YELLOW
HasStaleCell(k) == \E d \in PresentSlots(k) : IsStaleCell(k, d)
MissingData(k) == Cardinality(PresentSlots(k)) < Len(file_dates)
\* Some cell of the rendered row carries an anomaly marker.
HasMarker(k) == \E col \in 1..Len(cells[k]) : cells[k][col].display_text # ""
\* The place of an issuer in the rendered order.
Pos(k) == CHOOSE i \in 1..Len(sorted_issuers) : sorted_issuers[i] = k
\* The revocation count a cell is compared with: that of the slot just before
\* it, when that slot is present.
Baseline(k, col) ==
    IF col > 1 /\ file_dates[col - 1] \in PresentSlots(k)
    THEN StatusAt(k, file_dates[col - 1]).num_revocations
    ELSE PyNone

(***************************************************************************)
(* C1.  An issuer with fewer present slots than the slot list, no error    *)
(* cell and no warning cell has severity 2, with or without a revocation   *)
(* anomaly.  (Stated for issuers without stale cells, whose ranking is     *)
(* C6's.)  The code gives such an issuer with an anomaly severity 1.       *)
(***************************************************************************)
C1_MissingDataSeverity ==
    Rendered =>
        \A k \in Issuers :
            (MissingData(k) /\ ~HasErrorCell(k) /\ ~HasWarningCell(k) /\ ~HasStaleCell(k))
                => priority[k] = 2

(***************************************************************************)
(* C2.  Rows are ordered error, then warning-only, then anomaly-only, then *)
(* fully clean with full coverage; equal severity by ascending lowercased  *)
(* URL.  The tiers are those of the data model: staleness is no tier.      *)
(***************************************************************************)
Tier(k) ==
    IF HasErrorCell(k) THEN 4
    ELSE IF HasWarningCell(k) THEN 3
    ELSE IF MissingData(k) THEN 2
    ELSE IF HasMarker(k) THEN 1
    ELSE 0

C2_SeverityRanking ==
    Rendered =>
        \A i, j \in Issuers :
            (Tier(i) # 2 /\ Tier(j) # 2) =>
                /\ Tier(i) > Tier(j) => Pos(i) < Pos(j)
                /\ (/\ Tier(i) = Tier(j)
                    /\ StrLess(Lower(issuer_statuses[i].url), Lower(issuer_statuses[j].url)))
                       => Pos(i) < Pos(j)

(***************************************************************************)
(* C3.  An issuer is given anomaly severity only if some cell of its row   *)
(* carries an anomaly marker: the ranker compares no counts across a       *)
(* missing slot.                                                           *)
(***************************************************************************)
C3_AnomalySeverityHasMarker ==
    Rendered => \A k \in Issuers : priority[k] = 1 => HasMarker(k)

(***************************************************************************)
(* C4.  A present cell whose preceding slot is absent is compared with     *)
(* nothing: its baseline is None, its delta 0 and it carries no marker,    *)
(* whatever the counts of earlier slots.                                   *)
(***************************************************************************)
C4_MissingSlotResetsBaseline ==
    Rendered =>
        \A k \in Issuers : \A col \in 2..Len(file_dates) :
            (file_dates[col] \in PresentSlots(k) /\ file_dates[col - 1] \notin PresentSlots(k))
                => /\ cells[k][col].prev = PyNone
                   /\ cells[k][col].rev_change = 0
                   /\ cells[k][col].display_text = ""

\* Counts more than 250 apart on both sides of an absent slot, rendered.
C4_Witness ==
    /\ Rendered
    /\ \E k \in Issuers : \E col \in 3..Len(file_dates) :
           /\ {file_dates[col - 2], file_dates[col]} \subseteq PresentSlots(k)
           /\ file_dates[col - 1] \notin PresentSlots(k)
           /\ StatusAt(k, file_dates[col - 2]).num_revocations = PyInt(100)
           /\ StatusAt(k, file_dates[col]).num_revocations = PyInt(351)
           /\ cells[k][col].display_text = ""

(***************************************************************************)
(* C5.  As claimed: a kind holding "Valid" or "Empty" in any case is       *)
(* valid, one holding "Warning" in any case and neither is warning, every  *)
(* other kind is error.                                                    *)
(***************************************************************************)
C5_AnyCase ==
    pc = "classified" =>
        probe.status =
            IF Contains(Lower(probe.kind), "valid") \/ Contains(Lower(probe.kind), "empty")
            THEN "valid"
            ELSE IF Contains(Lower(probe.kind), "warning") THEN "warning"
            ELSE "error"

(***************************************************************************)
(* C5, amended.  The category is decided by the kind alone, matching case: *)
(* valid if the kind holds "Valid" or "Empty" exactly as written, whatever *)
(* surrounds it; warning if it holds "Warning" and neither; error          *)
(* otherwise, also for "valid", "VALID" or "warning".                      *)
(***************************************************************************)
C5_CaseSensitive ==
    pc = "classified" =>
        /\ (Contains(probe.kind, "Valid") \/ Contains(probe.kind, "Empty"))
               => probe.status = "valid"
        /\ (/\ Contains(probe.kind, "Warning")
            /\ ~Contains(probe.kind, "Valid") /\ ~Contains(probe.kind, "Empty"))
               => probe.status = "warning"
        /\ (/\ ~Contains(probe.kind, "Warning")
            /\ ~Contains(probe.kind, "Valid") /\ ~Contains(probe.kind, "Empty"))
               => probe.status = "error"
        /\ probe.kind \in {"valid", "VALID", "EMPTY", "warning"} => probe.status = "error"

\* A kind holding both "Valid" and "Warning", classified.
C5_Witness ==
    /\ pc = "classified"
    /\ probe.kind = "Valid Warning"
    /\ probe.status = "valid"

(***************************************************************************)
(* C6.  An issuer all of whose present cells are valid, stale or not, and  *)
(* that has no anomaly is never ranked with warning severity or above.     *)
(***************************************************************************)
C6_StaleIsNotWarning ==
    Rendered =>
        \A k \in Issuers : (AllCellsValid(k) /\ ~HasMarker(k)) => priority[k] < 3

(***************************************************************************)
(* C7.  A cell carries an anomaly marker exactly when its count and its    *)
(* baseline are integers more than 250 apart: rising when the count grew,  *)
(* falling when it shrank; 250 apart is no anomaly.                        *)
(***************************************************************************)
C7_AnomalyThreshold ==
    Rendered =>
        \A k \in Issuers : \A col \in 1..Len(file_dates) :
            file_dates[col] \in PresentSlots(k) =>
                LET curr == StatusAt(k, file_dates[col]).num_revocations
                    base == Baseline(k, col)
                    both == IsInt(curr) /\ IsInt(base)
                    delta == curr.n - base.n
                    marker == cells[k][col].display_text
                IN  /\ marker = ARROW_UP <=> (both /\ delta > 250)
                    /\ marker = ARROW_DOWN <=> (both /\ delta < -250)
                    /\ marker = "" <=> ~(both /\ (delta > 250 \/ delta < -250))
                    /\ both => cells[k][col].rev_change = delta

\* One row with a fall of exactly 250 (no marker) and a rise of 251 (rising).
C7_Witness ==
    /\ Rendered
    /\ \E k \in Issuers : \E c1, c2 \in 1..Len(file_dates) :
           /\ cells[k][c1].present /\ cells[k][c1].rev_change = -250
           /\ cells[k][c1].display_text = ""
           /\ cells[k][c2].present /\ cells[k][c2].rev_change = 251
           /\ cells[k][c2].display_text = ARROW_UP

(***************************************************************************)
(* C8.  A cell is in the stale-valid state exactly when its category is    *)
(* valid and the hour count parsed from its age is greater than 336:       *)
(* "336h0m0s" is not stale, "337h0m0s" is, an age with no hour count is    *)
(* not, and a warning or error cell never is.                              *)
(***************************************************************************)
ProbeStale == probe.status = "valid" /\ probe.color = COLOR_YELLOW

C8_StaleValid ==
    pc = "classified" =>
        LET hours == PyIntOfStr(SplitHead(probe.age.s)) IN
        /\ ProbeStale <=>
               (/\ is_valid(probe.kind) = "valid"
                /\ probe.age.t = "str" /\ hours.ok /\ hours.v > 336)
        /\ probe.age = PyStr("336h0m0s") => ~ProbeStale
        /\ (probe.age = PyStr("337h0m0s") /\ probe.status = "valid") => ProbeStale
        /\ probe.age \in {PyStr("N/A"), PyStr(""), PyStr("45m10s"), PyStr("h"),
                          PyStr("337.5h")} => ~ProbeStale
        /\ probe.status \in {"warning", "error"} =>
               probe.color = IF probe.status = "warning" THEN COLOR_YELLOW ELSE COLOR_RED

\* A valid entry of age 337h0m0s, classified stale.
C8_Witness ==
    /\ pc = "classified"
    /\ probe.kind = "Valid" /\ probe.age = PyStr("337h0m0s")
    /\ ProbeStale

(***************************************************************************)
(* C9.  No timeline holds an entry whose kind contains "Not Fresh", also   *)
(* when the kind contains "Valid"; and there is no timeline without an     *)
(* entry, so an issuer all of whose entries are Not Fresh has none.        *)
(***************************************************************************)
C9_NoNotFresh ==
    \A k \in Issuers :
        /\ PresentSlots(k) # {}
        /\ \A d \in PresentSlots(k) : ~Contains(StatusAt(k, d).kind, "Not Fresh")

\* All slots read, the last entry a "Valid, Not Fresh" one, and no timeline.
C9_Witness ==
    /\ pc = "load" /\ cur = NumSlots
    /\ entry_kind = "Valid, Not Fresh"
    /\ Issuers = {}

(***************************************************************************)
(* C10.  Malformed fields fail open: whatever the revocation count and age *)
(* of the entries (missing, null, not a number), ranking and rendering     *)
(* complete and the run does not end with an exception.                    *)
(***************************************************************************)
C10_FailOpen == pc # "raised"

(***************************************************************************)
(* C16.  A present cell whose count is no integer has delta 0 and no       *)
(* marker, and so has the present cell right after it, whatever the counts *)
(* before; an issuer none of whose successive present cells are both       *)
(* integers is not given anomaly severity.                                 *)
(***************************************************************************)
CountAt(k, col) == StatusAt(k, file_dates[col]).num_revocations
\* The present columns of k, c2 the first one after c1.
Successive(k, c1, c2) ==
    /\ c1 < c2
    /\ {file_dates[c1], file_dates[c2]} \subseteq PresentSlots(k)
    /\ \A c \in (c1 + 1)..(c2 - 1) : file_dates[c] \notin PresentSlots(k)

C16_NonIntegerResetsBaseline ==
    Rendered =>
        \A k \in Issuers :
            /\ \A col \in 1..Len(file_dates) :
                   (/\ file_dates[col] \in PresentSlots(k)
                    /\ \/ ~IsInt(CountAt(k, col))
                       \/ /\ col > 1 /\ file_dates[col - 1] \in PresentSlots(k)
                          /\ ~IsInt(CountAt(k, col - 1)))
                       => /\ cells[k][col].rev_change = 0
                          /\ cells[k][col].display_text = ""
            /\ (\A c1, c2 \in 1..Len(file_dates) :
                    Successive(k, c1, c2)
                        => (~IsInt(CountAt(k, c1)) \/ ~IsInt(CountAt(k, c2))))
                   => priority[k] # 1

\* Counts 100, "N/A", 351 in three slots, rendered with no marker.
C16_Witness ==
    /\ Rendered
    /\ \E k \in Issuers :
           /\ Len(file_dates) >= 3
           /\ {file_dates[1], file_dates[2], file_dates[3]} \subseteq PresentSlots(k)
           /\ CountAt(k, 1) = PyInt(100)
           /\ CountAt(k, 2) = PyStr("N/A")
           /\ CountAt(k, 3) = PyInt(351)
           /\ cells[k][3].display_text = ""
           /\ priority[k] = 0

(***************************************************************************)
(* What the CT log claims speak of.                                        *)
(***************************************************************************)
\* The STH poll of a log failed: no answer, an answer lacking tree_size or
\* timestamp, or one of them no number.
PollFailed(poll) ==
    /\ poll.polled
    /\ \/ SthUnusable(poll)
       \/ ~IsNumber(poll.tree_size)
       \/ ~IsNumber(poll.timestamp)
\* What ct_status.py printed once it has ended.
CtEnded == pc \in {"ct_printed", "ct_exit1"} /\ logs # <<>>
CtOutput == IF pc = "ct_printed" THEN results ELSE <<>>
\* The time difference of a row is a number, and its absolute value in
\* hundredths of an hour.
IsNumeric(log) == log.time_diff # NA
AbsHours(log) == Abs(PyFloatOfStr(RemoveChar(log.time_diff, "h")).v)

(***************************************************************************)
(* C11.  When ct_status.py has ended after downloading the log list, each  *)
(* polled log (non-empty LogID) has a record in the output, whatever the   *)
(* polls of the other logs returned, and the record of a log whose poll    *)
(* failed carries an error and "N/A" for entry lag and time difference.    *)
(***************************************************************************)
C11_PollFailureIsolated ==
    CtEnded =>
        \A i \in 1..Len(logs) :
            logs[i].LogID # "" =>
                \E j \in 1..Len(CtOutput) :
                    /\ CtOutput[j].url = logs[i].ShortURL
                    /\ (i <= Len(polls) /\ PollFailed(polls[i])) =>
                           /\ CtOutput[j].error # PyNone
                           /\ CtOutput[j].entry_lag = PyStr(NA)
                           /\ CtOutput[j].time_diff = NA

(***************************************************************************)
(* C13.  In the rows of the CT log table every log whose time difference   *)
(* is unavailable, which includes every log whose poll failed, comes       *)
(* before every log with a numeric one, and the numeric ones are in        *)
(* descending order of the absolute time difference.                       *)
(***************************************************************************)
C13_UnavailableFirst ==
    pc = "ct_table" =>
        /\ Len(sorted_logs) = Len(ct_logs)
        /\ \A l \in 1..Len(ct_logs) : \E i \in 1..Len(sorted_logs) : sorted_logs[i] = ct_logs[l]
        /\ \A i \in 1..Len(sorted_logs) :
               sorted_logs[i].error # PyNone => sorted_logs[i].time_diff = NA
        /\ \A i, j \in 1..Len(sorted_logs) :
               /\ (~IsNumeric(sorted_logs[i]) /\ IsNumeric(sorted_logs[j])) => i < j
               /\ (/\ IsNumeric(sorted_logs[i]) /\ IsNumeric(sorted_logs[j])
                   /\ AbsHours(sorted_logs[i]) > AbsHours(sorted_logs[j])) => i < j

\* Three rows: a failed poll first, then -30.00h, then +12.50h, the failed
\* log last in the order of the polls.
C13_Witness ==
    /\ pc = "ct_table"
    /\ Len(sorted_logs) = 3 /\ Len(ct_logs) = 3
    /\ sorted_logs[1].error = PyStr(FAILED_STH)
    /\ sorted_logs[1] = ct_logs[3]
    /\ sorted_logs[2].time_diff = "-30.00h"
    /\ sorted_logs[3].time_diff = "+12.50h"

(***************************************************************************)
(* What the claims about a run speak of.                                   *)
(***************************************************************************)
\* load_cached_data has returned in this run.
Loaded == pc \notin {"check", "update", "load_cache"}
\* The run has ended: with a report only when pc = "rendered".
RunEnded == pc \in {"exit1", "raised", "rendered"}
\* The slots of the window that have a cached document.
CachedSlots == get_file_urls(today) \cap DOMAIN cache
\* An entry with a string for its kind, which is not Not Fresh.
WellFormed(entry) ==
    /\ entry.Kind.t = "str" /\ entry.Url.t = "str"
    /\ ~Contains(entry.Kind.s, "Not Fresh")

(***************************************************************************)
(* C12.  Once the timelines are built, every well-formed entry of every    *)
(* cached document of the window is in the timeline of its issuer at its   *)
(* slot, whatever precedes it: a malformed entry earlier in the same       *)
(* document, or a slot that failed earlier.                                *)
(***************************************************************************)
C12_PerItemIsolation ==
    Loaded =>
        \A d \in CachedSlots : \A i \in 1..Len(cache[d]) :
            WellFormed(cache[d][i]) =>
                /\ cache[d][i].Url.s \in Issuers
                /\ d \in PresentSlots(cache[d][i].Url.s)

(***************************************************************************)
(* C15.  A run ends without a report exactly when no slot of the window    *)
(* has a cached document after the update step.                            *)
(***************************************************************************)
C15_FatalOnlyWithoutData ==
    RunEnded => (pc # "rendered" <=> CachedSlots = {})

(***************************************************************************)
(* What the claim about the cache speaks of.                               *)
(***************************************************************************)
\* The run is past its cache update step.
UpdateDone == pc \notin {"check", "update"}
\* The cached files outside the window the run computed.
Stale == DOMAIN cache \ expected_files

====
